---- MODULE Spec2Model ----
(***************************************************************************)
(* bevy_kira_audio: the beat subdivision table (BeatEvent, BEAT_EVENTS,    *)
(* BEAT_SUBDIVISIONS, to_subdivision, from_subdivision), the timeline      *)
(* settings resources and the per-frame schedule AudioPlugin::build        *)
(* registers.                                                              *)
(*                                                                         *)
(* lib.rs only names the systems of mod audio_output and the Audio         *)
(* resource; their bodies here follow the design document: the metronome   *)
(* its section 4.2, the command queue 4.3, the drain and the status poll   *)
(* 4.4.                                                                    *)
(***************************************************************************)
EXTENDS Integers, Sequences, FiniteSets, TLC

VARIABLES
    \* the table's functions under test: position, argument, variant,
    \* length obtained, lookup result
    tPc, tArg, tEv, tLen, tRes,
    \* the frame schedule: the stage being run and what has run this frame
    stage, order,
    \* Res<TimelineSettings> and Res<LastTimelineSettings>.inner
    settings, last,
    \* the metronome: beat position after and before the last frame step,
    \* the events that step sent, whether it reported a bpm warning, and
    \* the lengths it divided by
    beat, prevBeat, events, warned, divided,
    \* history of the mode changes the application made, and the restart
    \* (if any) the last metronome step was the first to see
    hist, landed,
    \* Audio: the commands queued this frame; the instances by handle (the
    \* state a query reports, the channel, whether the registry tracks it,
    \* the backend's own status); the handles whose play the backend
    \* refused in the last drain, and the commands that drain took
    queue, instances, errors, drained

tvars == <<tPc, tArg, tEv, tLen, tRes>>
svars == <<stage, order>>
mvars == <<settings, last, beat, prevBeat, events, warned, divided>>
hvars == <<hist, landed>>
avars == <<queue, instances, errors, drained>>
vars == <<tvars, svars, mvars, hvars, avars>>

-----------------------------------------------------------------------------
(* Bounds of the checked input space.                                      *)

\* numerators of the fractions fed to from_subdivision: 0..MaxNum
MaxNum == 3
\* denominators of the fractions fed to from_subdivision: 1..MaxDen
MaxDen == 24

-----------------------------------------------------------------------------
(* f64: IEEE-754 binary64 values, as far as the table needs them.          *)
(* A normal value is (-1)^neg * 1.b2 b3 ... b53 * 2^exp, man = <<1,b2..>>.  *)

\* significand width of binary64: 52 stored bits and the hidden bit
F64_MANT == 52 + 1
\* significand width of binary32: 23 stored bits and the hidden bit
F32_MANT == 23 + 1

FZero == [cls |-> "zero", neg |-> FALSE, exp |-> 0, man |-> <<>>]
FNegZero == [cls |-> "zero", neg |-> TRUE, exp |-> 0, man |-> <<>>]
FNaN == [cls |-> "nan", neg |-> FALSE, exp |-> 0, man |-> <<>>]

\* acc followed by the next k quotient bits of r/d (0 <= r < d), and the
\* remainder left
RECURSIVE DivBits(_, _, _, _)
DivBits(r, d, k, acc) ==
    IF k = 0 THEN [bits |-> acc, rem |-> r]
    ELSE IF 2 * r >= d THEN DivBits(2 * r - d, d, k - 1, Append(acc, 1))
    ELSE DivBits(2 * r, d, k - 1, Append(acc, 0))

\* bits + 1 as a binary number of the same width; carry = 1 when it wrapped
RECURSIVE IncBits(_)
IncBits(bits) ==
    IF bits = <<>> THEN [bits |-> <<>>, carry |-> 1]
    ELSE LET n == Len(bits)
             hd == SubSeq(bits, 1, n - 1)
         IN  IF bits[n] = 0
             THEN [bits |-> Append(hd, 1), carry |-> 0]
             ELSE LET up == IncBits(hd)
                  IN  [bits |-> Append(up.bits, 0), carry |-> up.carry]

\* scale n/d (n, d > 0) by powers of two into [1, 2): d <= n < 2d
RECURSIVE Normalise(_, _, _)
Normalise(n, d, e) ==
    IF n < d THEN Normalise(2 * n, d, e - 1)
    ELSE IF n >= 2 * d THEN Normalise(n, 2 * d, e + 1)
    ELSE [n |-> n, d |-> d, e |-> e]

Zeros(k) == [i \in 1..k |-> 0]

\* n/d rounded to nearest, ties to even, at a significand of p bits, held in
\* a binary64 (p <= 53; the low 53 - p bits are zero)
FDivP(n, d, p) ==
    IF n = 0 THEN FZero
    ELSE LET nz == Normalise(n, d, 0)
             q == DivBits(nz.n - nz.d, nz.d, p - 1, <<1>>)
             raw == q.bits
             up == \/ 2 * q.rem > nz.d
                   \/ 2 * q.rem = nz.d /\ raw[p] = 1
             inc == IncBits(raw)
             pad == Zeros(F64_MANT - p)
         IN  IF ~up THEN [cls |-> "normal", neg |-> FALSE, exp |-> nz.e,
                          man |-> raw \o pad]
             ELSE IF inc.carry = 0
             THEN [cls |-> "normal", neg |-> FALSE, exp |-> nz.e,
                   man |-> inc.bits \o pad]
             ELSE [cls |-> "normal", neg |-> FALSE, exp |-> nz.e + 1,
                   man |-> <<1>> \o Zeros(p - 1) \o pad]

\* the f64 division n / d of two exactly representable operands, and the
\* f64 a decimal literal with value n/d parses to (both correctly rounded)
FDiv(n, d) == FDivP(n, d, F64_MANT)

\* the same quotient computed in f32 and widened to f64
FDiv32(n, d) == FDivP(n, d, F32_MANT)

FNeg(x) == [x EXCEPT !.neg = ~x.neg]

\* the next f64 above a positive normal x
FNextUp(x) ==
    LET inc == IncBits(x.man)
    IN  IF inc.carry = 0 THEN [x EXCEPT !.man = inc.bits]
        ELSE [x EXCEPT !.exp = x.exp + 1,
                       !.man = <<1>> \o Zeros(F64_MANT - 1)]

\* f64 == : NaN equals nothing, -0.0 equals 0.0, else same sign, exponent
\* and significand
FEq(x, y) ==
    /\ x.cls # "nan"
    /\ y.cls # "nan"
    /\ \/ x.cls = "zero" /\ y.cls = "zero"
       \/ x = y

\* f64 ==, on values first rounded to f32 (a comparison at single precision)
FEq32(x, y) ==
    /\ x.cls # "nan"
    /\ y.cls # "nan"
    /\ \/ x.cls = "zero" /\ y.cls = "zero"
       \/ /\ x.cls = y.cls
          /\ x.neg = y.neg
          /\ x.exp = y.exp
          /\ SubSeq(x.man, 1, F32_MANT) = SubSeq(y.man, 1, F32_MANT)

-----------------------------------------------------------------------------
(* The subdivision table.                                                  *)

BeatEvent ==
    {"Whole", "Half", "Quarter", "Eighth", "Sixteenth",
     "HalfTriplet", "QuarterTriplet", "EighthTriplet", "SixteenthTriplet"}

\* a table that lists the triplets first
BEAT_EVENTS_TripletsFirst ==
    <<"Whole", "HalfTriplet", "QuarterTriplet", "EighthTriplet",
      "SixteenthTriplet", "Half", "Quarter", "Eighth", "Sixteenth">>

\* a table in which two rows were swapped
BEAT_EVENTS_Drift ==
    <<"Whole", "Quarter", "Half", "Eighth", "Sixteenth",
      "HalfTriplet", "QuarterTriplet", "EighthTriplet", "SixteenthTriplet">>

BEAT_EVENTS ==
    <<"Whole", "Half", "Quarter", "Eighth", "Sixteenth",
      "HalfTriplet", "QuarterTriplet", "EighthTriplet", "SixteenthTriplet">>

\* the f64 values the literals and quotients of to_subdivision denote
LIT_0_5 == FDiv(5, 10)
LIT_0_25 == FDiv(25, 100)
LIT_0_125 == FDiv(125, 1000)
LIT_0_0625 == FDiv(625, 10000)
DIV_1_3 == FDiv(1, 3)
DIV_1_6 == FDiv(1, 6)
DIV_1_12 == FDiv(1, 12)
DIV_1_24 == FDiv(1, 24)
LIT_1 == FDiv(1, 1)

\* a table in which Whole is one whole beat
to_subdivision_WholeOne(self) ==
    CASE self = "Whole" -> LIT_1
      [] self = "Half" -> LIT_0_5
      [] self = "Quarter" -> LIT_0_25
      [] self = "Eighth" -> LIT_0_125
      [] self = "Sixteenth" -> LIT_0_0625
      [] self = "HalfTriplet" -> DIV_1_3
      [] self = "QuarterTriplet" -> DIV_1_6
      [] self = "EighthTriplet" -> DIV_1_12
      [] self = "SixteenthTriplet" -> DIV_1_24

\* a table in which a triplet takes the length of its neighbour
to_subdivision_Dup(self) ==
    CASE self = "Whole" -> FZero
      [] self = "Half" -> LIT_0_5
      [] self = "Quarter" -> LIT_0_25
      [] self = "Eighth" -> LIT_0_125
      [] self = "Sixteenth" -> LIT_0_0625
      [] self = "HalfTriplet" -> DIV_1_3
      [] self = "QuarterTriplet" -> DIV_1_6
      [] self = "EighthTriplet" -> DIV_1_6
      [] self = "SixteenthTriplet" -> DIV_1_24

to_subdivision(self) ==
    CASE self = "Whole" -> FZero
      [] self = "Half" -> LIT_0_5
      [] self = "Quarter" -> LIT_0_25
      [] self = "Eighth" -> LIT_0_125
      [] self = "Sixteenth" -> LIT_0_0625
      [] self = "HalfTriplet" -> DIV_1_3
      [] self = "QuarterTriplet" -> DIV_1_6
      [] self = "EighthTriplet" -> DIV_1_12
      [] self = "SixteenthTriplet" -> DIV_1_24

BEAT_SUBDIVISIONS ==
    <<to_subdivision("Whole"), to_subdivision("Half"),
      to_subdivision("Quarter"), to_subdivision("Eighth"),
      to_subdivision("Sixteenth"), to_subdivision("HalfTriplet"),
      to_subdivision("QuarterTriplet"), to_subdivision("EighthTriplet"),
      to_subdivision("SixteenthTriplet")>>

None == [some |-> FALSE, val |-> "None"]
Some(v) == [some |-> TRUE, val |-> v]

\* the scan of from_subdivision from index i on (1-based)
RECURSIVE FromSubdivisionLoop(_, _)
FromSubdivisionLoop(sub, i) ==
    IF i > Len(BEAT_SUBDIVISIONS) THEN None
    ELSE IF FEq(sub, BEAT_SUBDIVISIONS[i]) THEN Some(BEAT_EVENTS[i])
    ELSE FromSubdivisionLoop(sub, i + 1)

\* the same scan comparing at single precision
RECURSIVE FromSubdivisionLoop32(_, _)
FromSubdivisionLoop32(sub, i) ==
    IF i > Len(BEAT_SUBDIVISIONS) THEN None
    ELSE IF FEq32(sub, BEAT_SUBDIVISIONS[i]) THEN Some(BEAT_EVENTS[i])
    ELSE FromSubdivisionLoop32(sub, i + 1)

from_subdivision_Approx(sub) == FromSubdivisionLoop32(sub, 1)

from_subdivision(sub) == FromSubdivisionLoop(sub, 1)

-----------------------------------------------------------------------------
(* The frame schedule AudioPlugin::build registers.                        *)

\* a build() that registers the queue drain in PreUpdate as well
SystemStage_AllPre(sys) ==
    CASE sys = "init_metronome_system" -> "Startup"
      [] sys = "metronome_events_system" -> "PreUpdate"
      [] sys = "play_queued_audio_system" -> "PreUpdate"
      [] sys = "update_instance_states_system" -> "PreUpdate"

\* add_startup_system / add_system_to_stage
SystemStage(sys) ==
    CASE sys = "init_metronome_system" -> "Startup"
      [] sys = "metronome_events_system" -> "PreUpdate"
      [] sys = "play_queued_audio_system" -> "PostUpdate"
      [] sys = "update_instance_states_system" -> "PreUpdate"

Systems ==
    {"init_metronome_system", "metronome_events_system",
     "play_queued_audio_system", "update_instance_states_system"}

\* the stages of one frame, in the order the app runs them; the
\* application's own systems (the game logic) run in Update
CoreStage == <<"PreUpdate", "Update", "PostUpdate">>

StageSystems(st) == {s \in Systems : SystemStage(s) = st}

Range(f) == {f[i] : i \in DOMAIN f}

\* sys is registered in the running stage and has not run in this frame;
\* the systems of one stage run in an order the schedule does not fix
CanRun(sys) ==
    /\ stage = SystemStage(sys)
    /\ sys \notin Range(order)

StageIndex(st) == CHOOSE i \in DOMAIN CoreStage : CoreStage[i] = st

\* the running stage is complete: the next one starts, and after the last
\* stage the next frame
NextStage ==
    /\ stage \in Range(CoreStage)
    /\ StageSystems(stage) \subseteq Range(order)
    /\ IF StageIndex(stage) = Len(CoreStage)
       THEN /\ stage' = CoreStage[1]
            /\ order' = <<>>
            /\ errors' = {}
            /\ drained' = <<>>
       ELSE /\ stage' = CoreStage[StageIndex(stage) + 1]
            /\ order' = Append(order, stage)
            /\ UNCHANGED <<errors, drained>>
    /\ UNCHANGED <<mvars, hvars, queue, instances>>

-----------------------------------------------------------------------------
(* The timeline resources.                                                 *)

TimelineState == {"Playing", "Paused", "Stopped"}

\* impl Default for TimelineSettings
TimelineSettingsDefault == [bpm |-> 120, state |-> "Stopped"]

\* an equality that looks at the tempo alone
TimelineSettingsEq_BpmOnly(a, b) == a.bpm = b.bpm

\* derive(PartialEq) on TimelineSettings: both fields
TimelineSettingsEq(a, b) == a.bpm = b.bpm /\ a.state = b.state

\* the tempos the application sets; the type takes any f64
BpmValues == {-60, 0, 120}

-----------------------------------------------------------------------------
(* The metronome. Beat positions are counted in ticks of 1/48 beat, the    *)
(* coarsest grid on which every subdivision boundary falls, and frame      *)
(* times in ticks of 1/96 second.                                          *)

TicksPerBeat == 3 * 16
TicksPerSecond == 2 * TicksPerBeat

\* the largest beat position followed, in ticks
MaxBeatTicks == 48
\* the longest frame time, in ticks of 1/96 second
MaxDelta == 25

DeltaSeconds == {1, MaxDelta}

\* the integer the top w bits of a significand denote
RECURSIVE BitsValue(_, _)
BitsValue(bits, w) ==
    IF w = 0 THEN 0 ELSE 2 * BitsValue(bits, w - 1) + bits[w]

\* a length in ticks: x * TicksPerBeat rounded to the nearest integer
LengthTicks(x) ==
    IF x.cls # "normal" THEN 0
    ELSE LET w == 20
             m == BitsValue(x.man, w)
             scale == 2 ^ (w - 1 - x.exp)
         IN  (2 * m * TicksPerBeat + scale) \div (2 * scale)

\* sub > 0.
FPositive(x) == x.cls = "normal" /\ ~x.neg

\* the table's lengths in ticks
SUBDIVISION_TICKS ==
    [i \in 1..Len(BEAT_SUBDIVISIONS) |-> LengthTicks(BEAT_SUBDIVISIONS[i])]

\* floor(previousBeat / L) < floor(currentBeat / L)
Crossed(prev, cur, len) == (prev \div len) < (cur \div len)

\* the events of one frame from table row i on: one per row whose length
\* is positive and has a boundary in (prev, cur]
RECURSIVE CrossedEvents(_, _, _)
CrossedEvents(prev, cur, i) ==
    IF i > Len(BEAT_EVENTS) THEN <<>>
    ELSE IF /\ FPositive(BEAT_SUBDIVISIONS[i])
            /\ Crossed(prev, cur, SUBDIVISION_TICKS[i])
         THEN <<BEAT_EVENTS[i]>> \o CrossedEvents(prev, cur, i + 1)
         ELSE CrossedEvents(prev, cur, i + 1)

\* a tempo that is not positive still advances (or rewinds) the position
DeltaBeats_Unclamped(ds, bpm) == (ds * bpm * TicksPerBeat) \div (60 * TicksPerSecond)

\* deltaBeats = deltaSeconds * bpm / 60, and 0 when bpm <= 0
DeltaBeats(ds, bpm) ==
    IF bpm <= 0 THEN 0
    ELSE (ds * bpm * TicksPerBeat) \div (60 * TicksPerSecond)

NoLanding == [kind |-> "none", seen |-> FALSE, at |-> 0, moved |-> FALSE]

HistInit ==
    [modes |-> <<"Stopped">>, seenCur |-> FALSE, seenMid |-> FALSE, mark |-> 0,
     moved |-> FALSE]

\* the last n elements of s
LastN(s, n) == IF Len(s) <= n THEN s ELSE SubSeq(s, Len(s) - n + 1, Len(s))

\* the startup system
init_metronome_system ==
    /\ stage = "Startup"
    /\ stage' = CoreStage[1]
    /\ beat' = 0
    /\ prevBeat' = 0
    /\ UNCHANGED <<order, settings, last, events, warned, divided, hvars, avars>>

\* one frame of the metronome: the settings are compared with the ones of
\* the frame before, the position advances while Playing, and one event is
\* sent per subdivision crossed
metronome_events_system ==
    /\ CanRun("metronome_events_system")
    /\ \E ds \in DeltaSeconds :
          LET changed == ~TimelineSettingsEq(last, settings)
              playing == settings.state = "Playing"
              start == IF changed /\ settings.state = "Stopped" THEN 0 ELSE beat
              cur == IF playing THEN start + DeltaBeats(ds, settings.bpm)
                     ELSE start
          IN  /\ cur \in 0..MaxBeatTicks
              /\ prevBeat' = start
              /\ beat' = cur
              /\ events' = IF playing THEN CrossedEvents(start, cur, 1) ELSE <<>>
              /\ divided' = IF playing
                            THEN {SUBDIVISION_TICKS[i] :
                                    i \in {j \in 1..Len(BEAT_SUBDIVISIONS) :
                                             FPositive(BEAT_SUBDIVISIONS[j])}}
                            ELSE {}
              /\ warned' = (warned \/ (playing /\ settings.bpm <= 0))
    /\ last' = settings
    /\ landed' = IF /\ ~hist.seenCur
                    /\ settings.state = "Playing"
                    /\ Len(hist.modes) = 3
                    /\ hist.modes[1] = "Playing"
                 THEN [kind |-> hist.modes[2], seen |-> hist.seenMid,
                       at |-> hist.mark, moved |-> hist.moved]
                 ELSE NoLanding
    /\ hist' = [hist EXCEPT !.seenCur = TRUE,
                            !.mark = IF settings.state = "Paused" THEN @ ELSE 0]
    /\ order' = Append(order, "metronome_events_system")
    /\ UNCHANGED <<stage, settings, avars>>

\* the application writes TimelineSettings.bpm
SetBpm(b) ==
    /\ stage = "Update"
    /\ b # settings.bpm
    /\ settings' = [settings EXCEPT !.bpm = b]
    /\ UNCHANGED <<svars, last, beat, prevBeat, events, warned, divided, hvars, avars>>

\* the application writes TimelineSettings.state
SetState(m) ==
    /\ stage = "Update"
    /\ m # settings.state
    /\ settings' = [settings EXCEPT !.state = m]
    /\ hist' = [modes |-> LastN(Append(hist.modes, m), 3),
                seenCur |-> FALSE,
                seenMid |-> hist.seenCur,
                mark |-> IF settings.state = "Playing" /\ m = "Paused" THEN beat
                         ELSE IF settings.state = "Paused" /\ m = "Playing"
                         THEN hist.mark
                         ELSE 0,
                moved |-> IF settings.state = "Playing" THEN beat > 0
                          ELSE hist.moved]
    /\ UNCHANGED <<svars, last, beat, prevBeat, events, warned, divided, landed, avars>>

-----------------------------------------------------------------------------
(* The Audio resource's command queue and the instance registry.           *)

\* the instance handles issued at most
MaxHandles == 2
\* the commands queued in one frame at most
MaxQueue == 2

Channels == {"default", "music"}

PlaybackState == {"Queued", "Playing", "Paused", "Stopped"}

PlayCmd(ch, h) == [kind |-> "Play", channel |-> ch, handle |-> h]
ChannelCmd(k, ch) == [kind |-> k, channel |-> ch, handle |-> 0]

\* the handles the Play commands of q carry
PlayHandles(q) == {q[i].handle : i \in {j \in DOMAIN q : q[j].kind = "Play"}}

\* the handles the registry tracks on channel ch
Owned(inst, ch) ==
    {h \in DOMAIN inst : inst[h].tracked /\ inst[h].channel = ch}

\* state and backend status of the handles in hs become st
SetAll(inst, hs, st) ==
    [h \in DOMAIN inst |->
        IF h \in hs THEN [inst[h] EXCEPT !.state = st, !.backend = st]
        ELSE inst[h]]

\* one command against the backend; fails holds the handles whose play the
\* backend refuses
ApplyCommand(inst, c, fails) ==
    CASE c.kind = "Play" ->
            IF c.handle \in fails
            THEN [inst EXCEPT ![c.handle].state = "Stopped"]
            ELSE [inst EXCEPT ![c.handle].state = "Playing",
                              ![c.handle].backend = "Playing",
                              ![c.handle].tracked = TRUE]
      [] c.kind = "Stop" ->
            SetAll(inst, Owned(inst, c.channel), "Stopped")
      [] c.kind = "Pause" ->
            SetAll(inst, {h \in Owned(inst, c.channel) :
                            inst[h].state = "Playing"}, "Paused")
      [] c.kind = "Resume" ->
            SetAll(inst, {h \in Owned(inst, c.channel) :
                            inst[h].state = "Paused"}, "Playing")

\* a drain that gives up at the first play the backend refuses
RECURSIVE DrainAll_AbortOnFailure(_, _, _)
DrainAll_AbortOnFailure(inst, q, fails) ==
    IF q = <<>> THEN inst
    ELSE IF Head(q).kind = "Play" /\ Head(q).handle \in fails
    THEN ApplyCommand(inst, Head(q), fails)
    ELSE DrainAll_AbortOnFailure(ApplyCommand(inst, Head(q), fails), Tail(q),
                                 fails)

\* a drain that hands the commands to the backend and leaves the handles'
\* states for the next status poll
RECURSIVE DrainAll_StateLater(_, _, _)
DrainAll_StateLater(inst, q, fails) ==
    IF q = <<>> THEN inst
    ELSE LET c == Head(q)
             done == ApplyCommand(inst, c, fails)
             kept == IF c.kind = "Play" /\ c.handle \notin fails
                     THEN [done EXCEPT ![c.handle].state = "Queued"]
                     ELSE done
         IN  DrainAll_StateLater(kept, Tail(q), fails)

\* the queue drained in submission order
RECURSIVE DrainAll(_, _, _)
DrainAll(inst, q, fails) ==
    IF q = <<>> THEN inst
    ELSE DrainAll(ApplyCommand(inst, Head(q), fails), Tail(q), fails)

\* the registry after a status poll: every tracked handle takes the
\* backend's status, and the stopped ones are dropped
Polled(inst) ==
    [h \in DOMAIN inst |->
        IF inst[h].tracked
        THEN [inst[h] EXCEPT !.state = inst[h].backend,
                             !.tracked = inst[h].backend # "Stopped"]
        ELSE inst[h]]

\* audio.play(source) on a channel: the command is queued and a handle
\* returned
Play(ch) ==
    /\ stage = "Update"
    /\ Len(queue) < MaxQueue
    /\ Cardinality(DOMAIN instances) < MaxHandles
    /\ LET h == Cardinality(DOMAIN instances) + 1
       IN  /\ queue' = Append(queue, PlayCmd(ch, h))
           /\ instances' =
                [g \in DOMAIN instances \cup {h} |->
                    IF g = h
                    THEN [state |-> "Queued", channel |-> ch,
                          tracked |-> FALSE, backend |-> "Stopped"]
                    ELSE instances[g]]
    /\ UNCHANGED <<svars, mvars, hvars, errors, drained>>

\* audio.stop / pause / resume on a channel
ChannelCommand(k, ch) ==
    /\ stage = "Update"
    /\ Len(queue) < MaxQueue
    /\ queue' = Append(queue, ChannelCmd(k, ch))
    /\ UNCHANGED <<svars, mvars, hvars, instances, errors, drained>>

\* a sound reaches its end in the backend
BackendFinish(h) ==
    /\ h \in DOMAIN instances
    /\ instances[h].tracked
    /\ instances[h].backend = "Playing"
    /\ instances' = [instances EXCEPT ![h].backend = "Stopped"]
    /\ UNCHANGED <<svars, mvars, hvars, queue, errors, drained>>

\* the status poll of the tracked handles
update_instance_states_system ==
    /\ CanRun("update_instance_states_system")
    /\ instances' = Polled(instances)
    /\ order' = Append(order, "update_instance_states_system")
    /\ UNCHANGED <<stage, mvars, hvars, queue, errors, drained>>

\* the drain of the queued commands; the backend may refuse any play
play_queued_audio_system ==
    /\ CanRun("play_queued_audio_system")
    /\ \E fails \in SUBSET PlayHandles(queue) :
          /\ instances' = DrainAll(instances, queue, fails)
          /\ errors' = fails
    /\ drained' = queue
    /\ queue' = <<>>
    /\ order' = Append(order, "play_queued_audio_system")
    /\ UNCHANGED <<stage, mvars, hvars>>

FrameInit ==
    /\ stage = "Startup"
    /\ order = <<>>
    /\ settings = TimelineSettingsDefault
    /\ last = TimelineSettingsDefault
    /\ beat = 0
    /\ prevBeat = 0
    /\ events = <<>>
    /\ warned = FALSE
    /\ divided = {}
    /\ hist = HistInit
    /\ landed = NoLanding
    /\ queue = <<>>
    /\ instances = <<>>
    /\ errors = {}
    /\ drained = <<>>

TimelineNext ==
    \/ init_metronome_system /\ UNCHANGED tvars
    \/ metronome_events_system /\ UNCHANGED tvars
    \/ update_instance_states_system /\ UNCHANGED tvars
    \/ play_queued_audio_system /\ UNCHANGED tvars
    \/ NextStage /\ UNCHANGED tvars
    \/ \E b \in BpmValues : SetBpm(b) /\ UNCHANGED tvars
    \/ \E m \in TimelineState : SetState(m) /\ UNCHANGED tvars

AudioNext ==
    \/ init_metronome_system /\ UNCHANGED tvars
    \/ metronome_events_system /\ UNCHANGED tvars
    \/ update_instance_states_system /\ UNCHANGED tvars
    \/ play_queued_audio_system /\ UNCHANGED tvars
    \/ NextStage /\ UNCHANGED tvars
    \/ \E ch \in Channels : Play(ch) /\ UNCHANGED tvars
    \/ \E k \in {"Stop", "Pause", "Resume"}, ch \in Channels :
          ChannelCommand(k, ch) /\ UNCHANGED tvars
    \/ \E h \in 1..MaxHandles : BackendFinish(h) /\ UNCHANGED tvars

Next == TimelineNext \/ AudioNext

-----------------------------------------------------------------------------
(* The table's functions applied to bounded inputs.                        *)

Fractions ==
    LET pos == {FDiv(n, d) : n \in 0..MaxNum, d \in 1..MaxDen}
        single == {FDiv32(n, d) : n \in 1..MaxNum, d \in 1..MaxDen}
        near == {FNextUp(c) : c \in {x \in pos : x.cls = "normal"}}
    IN  pos \cup single \cup near \cup {FNeg(x) : x \in pos} \cup {FNaN}

TableIdle ==
    /\ tPc = "idle"
    /\ tArg = FZero
    /\ tEv = "Whole"
    /\ tLen = FZero
    /\ tRes = None

TableInit ==
    /\ tPc = "start"
    /\ tArg \in Fractions
    /\ tEv \in BeatEvent
    /\ tLen = FZero
    /\ tRes = None

\* from_subdivision(tArg)
CallFromSubdivision ==
    /\ tPc = "start"
    /\ tRes' = from_subdivision(tArg)
    /\ tPc' = "looked_up"
    /\ UNCHANGED <<tArg, tEv, tLen, svars, mvars, hvars, avars>>

\* tEv.to_subdivision()
CallToSubdivision ==
    /\ tPc = "start"
    /\ tLen' = to_subdivision(tEv)
    /\ tPc' = "measured"
    /\ UNCHANGED <<tArg, tEv, tRes, svars, mvars, hvars, avars>>

\* from_subdivision(tEv.to_subdivision())
CallRoundTrip ==
    /\ tPc = "measured"
    /\ tRes' = from_subdivision(tLen)
    /\ tPc' = "round_trip"
    /\ UNCHANGED <<tArg, tEv, tLen, svars, mvars, hvars, avars>>

TableNext == CallFromSubdivision \/ CallToSubdivision \/ CallRoundTrip

\* the table's functions on every bounded input, the app not started
InitTable == TableInit /\ FrameInit

\* the app as built, before its startup systems run
Init == FrameInit /\ TableIdle

SpecTable == InitTable /\ [][TableNext]_vars

\* the frames of an application that drives the timeline
SpecTimeline == Init /\ [][TimelineNext]_vars

\* the frames of an application that plays sounds
SpecAudio == Init /\ [][AudioNext]_vars

Spec == Init /\ [][Next]_vars

-----------------------------------------------------------------------------
(* C6: for each of the nine variants s, from_subdivision(s.to_subdivision()) *)
(* is Some(s); the two tables are aligned index by index and the nine       *)
(* lengths are pairwise distinct under f64 equality.                        *)
TablesAligned ==
    /\ Len(BEAT_EVENTS) = Len(BEAT_SUBDIVISIONS)
    /\ \A i \in 1..Len(BEAT_EVENTS) :
          FEq(BEAT_SUBDIVISIONS[i], to_subdivision(BEAT_EVENTS[i]))

LengthsDistinct ==
    \A i, j \in 1..Len(BEAT_SUBDIVISIONS) :
        i # j => ~FEq(BEAT_SUBDIVISIONS[i], BEAT_SUBDIVISIONS[j])

RoundTripReturnsVariant ==
    /\ tPc = "round_trip" => tRes = Some(tEv)
    /\ TablesAligned
    /\ LengthsDistinct

\* a round trip through a triplet length, which f64 holds only rounded
RoundTripTripletDone ==
    /\ tPc = "round_trip"
    /\ tEv = "EighthTriplet"
    /\ tLen = DIV_1_12
    /\ tLen # FDiv32(1, 12)
    /\ tRes = Some("EighthTriplet")

\* the exact values the nine lengths denote, as integer fractions, for
\* stating which inputs are canonical without using the table itself
CanonicalValues ==
    {FDiv(1, 2), FDiv(1, 4), FDiv(1, 8), FDiv(1, 16),
     FDiv(1, 3), FDiv(1, 6), FDiv(1, 12), FDiv(1, 24)}

IsCanonicalValue(x) == x.cls = "zero" \/ x \in CanonicalValues

(* C7: for every f64 that equals none of the nine canonical lengths,        *)
(* from_subdivision returns None; a value one ulp away from a canonical     *)
(* length, or the single-precision rounding of it, is not matched.          *)
NonCanonicalIsNone ==
    (tPc = "looked_up" /\ ~IsCanonicalValue(tArg)) => tRes = None

NearThird == FNextUp(DIV_1_3)

\* the f64 just above 1/3 was looked up and matched nothing
NearMissLookedUp ==
    /\ tPc = "looked_up"
    /\ tArg = NearThird
    /\ tRes = None

-----------------------------------------------------------------------------
(* The metronome's frames.                                                 *)

\* how often e occurs in seq
Count(e, seq) == Cardinality({i \in DOMAIN seq : seq[i] = e})

\* the length of each variant in ticks
VARIANT_TICKS == [e \in BeatEvent |-> LengthTicks(to_subdivision(e))]

VariantTicks(e) == VARIANT_TICKS[e]

(* C1: in a frame run while Playing, for every subdivision of length L > 0  *)
(* exactly one event tagged with it is sent if                              *)
(* floor(previousBeat / L) < floor(currentBeat / L), and none otherwise,    *)
(* however many boundaries of it the step crossed.                          *)
OneEventPerCrossedSubdivision ==
    last.state = "Playing" =>
        \A e \in BeatEvent :
            VariantTicks(e) > 0 =>
                Count(e, events) =
                    IF Crossed(prevBeat, beat, VariantTicks(e)) THEN 1 ELSE 0

\* one step over two or more Quarter boundaries sent a single Quarter event
LargeStepOneQuarterEvent ==
    /\ last.state = "Playing"
    /\ (beat \div VariantTicks("Quarter")) >=
           (prevBeat \div VariantTicks("Quarter")) + 2
    /\ Count("Quarter", events) = 1

\* the place of a variant in the priority order Whole, Half, Quarter,
\* Eighth, Sixteenth, HalfTriplet, QuarterTriplet, EighthTriplet,
\* SixteenthTriplet
Priority(e) ==
    CASE e = "Whole" -> 1
      [] e = "Half" -> 2
      [] e = "Quarter" -> 3
      [] e = "Eighth" -> 4
      [] e = "Sixteenth" -> 5
      [] e = "HalfTriplet" -> 6
      [] e = "QuarterTriplet" -> 7
      [] e = "EighthTriplet" -> 8
      [] e = "SixteenthTriplet" -> 9

(* C2: the events of one frame are sent in the priority order: of any two,  *)
(* the one whose subdivision comes earlier in the order is sent first.      *)
EventsInPriorityOrder ==
    \A i, j \in DOMAIN events :
        i < j => Priority(events[i]) < Priority(events[j])

\* a frame that crossed a Half, a Quarter and a triplet boundary at once
HalfBeforeQuarterSent ==
    /\ Len(events) >= 3
    /\ events[1] = "Half"
    /\ events[2] = "Quarter"
    /\ "HalfTriplet" \in Range(events)

(* C3, as stated: on Playing -> Stopped -> Playing the position at the      *)
(* first frame of the restart is 0, and on Playing -> Paused -> Playing it  *)
(* is the position held at the pause, for any sequence of mode changes and  *)
(* frames.                                                                  *)
RestartPositionAnySequence ==
    /\ landed.kind = "Stopped" => prevBeat = 0
    /\ landed.kind = "Paused" => prevBeat = landed.at

(* C3, amended: on Playing -> Stopped -> Playing the position at the first  *)
(* frame of the restart is 0 provided the metronome ran at least one frame  *)
(* while the mode was Stopped; on Playing -> Paused -> Playing it is the    *)
(* position held at the pause, however many frames ran while Paused.        *)
RestartPositionWhenStopSeen ==
    /\ (landed.kind = "Stopped" /\ landed.seen) => prevBeat = 0
    /\ landed.kind = "Paused" => prevBeat = landed.at

\* a timeline stopped at a position past 0 restarted from 0
RestartedFromZero ==
    /\ landed.kind = "Stopped"
    /\ landed.seen
    /\ landed.moved
    /\ prevBeat = 0
    /\ beat > 0

(* C8: a frame run while Playing with bpm <= 0 leaves the beat position     *)
(* unchanged, sends no event and reports a warning; a later frame with a    *)
(* positive bpm advances again. TimelineSettings holds any bpm together     *)
(* with Playing.                                                            *)
NonPositiveBpmDoesNotAdvance ==
    /\ (last.state = "Playing" /\ last.bpm <= 0) =>
           (beat = prevBeat /\ events = <<>> /\ warned)
    /\ (warned /\ last.state = "Playing" /\ last.bpm > 0) => beat > prevBeat

\* a timeline that had advanced was held in place by a frame with bpm < 0
StalledOnNegativeBpm ==
    /\ last.state = "Playing"
    /\ last.bpm < 0
    /\ prevBeat > 0
    /\ beat = prevBeat
    /\ events = <<>>

(* C10: no frame sends a Whole event, and no frame divides by a length     *)
(* of 0: the crossing rule is evaluated for lengths > 0 only.              *)
NoWholeEventNoZeroDivisor ==
    /\ "Whole" \notin Range(events)
    /\ 0 \notin divided

\* a frame that reached the end of a whole beat and sent events, none Whole
WholeBeatCrossedWithoutWhole ==
    /\ last.state = "Playing"
    /\ prevBeat < TicksPerBeat
    /\ beat = TicksPerBeat
    /\ "Half" \in Range(events)
    /\ "Whole" \notin Range(events)
    /\ divided # {}

-----------------------------------------------------------------------------
(* The command queue and the frame schedule.                               *)

\* no command after drained[i] addresses the channel of drained[i]
Undisturbed(i) ==
    \A j \in DOMAIN drained :
        (j > i /\ drained[j].kind # "Play") =>
            drained[j].channel # drained[i].channel

DrainStep == order' = Append(order, "play_queued_audio_system")

Position(x) == CHOOSE i \in DOMAIN order : order[i] = x

\* a ran (or, for a stage, was completed) in this frame before b
Before(a, b) ==
    /\ a \in Range(order)
    /\ b \in Range(order)
    /\ Position(a) < Position(b)

(* C9, as stated: in every frame the metronome step runs before the queue   *)
(* drain, and the reconciliation, the drain and then the status poll of the *)
(* tracked handles, runs after the game-logic update of that frame.         *)
ReconciliationAfterGameLogic ==
    /\ "play_queued_audio_system" \in Range(order) =>
          /\ Before("metronome_events_system", "play_queued_audio_system")
          /\ Before("Update", "play_queued_audio_system")
    /\ "update_instance_states_system" \in Range(order) =>
          /\ Before("Update", "update_instance_states_system")
          /\ Before("play_queued_audio_system", "update_instance_states_system")

(* C9, amended: in every frame the metronome step and the status poll of    *)
(* the tracked handles run before the game-logic update (in PreUpdate, in   *)
(* either order), and the queue drain runs after the game-logic update (in  *)
(* PostUpdate), so after the metronome step and after that frame's poll.    *)
DrainAfterGameLogicPollBefore ==
    /\ "play_queued_audio_system" \in Range(order) =>
          /\ Before("metronome_events_system", "play_queued_audio_system")
          /\ Before("update_instance_states_system", "play_queued_audio_system")
          /\ Before("Update", "play_queued_audio_system")
    /\ "Update" \in Range(order) =>
          /\ Before("metronome_events_system", "Update")
          /\ Before("update_instance_states_system", "Update")

\* a frame in which every system has run and commands were drained
FrameCompleteWithDrain ==
    /\ stage = "PostUpdate"
    /\ "play_queued_audio_system" \in Range(order)
    /\ Before("update_instance_states_system", "Update")
    /\ drained # <<>>

====
